---- MODULE Spec2Model ----
(***************************************************************************)
(* The summarize service of src/main.py: caption lookup, the fallback      *)
(* through the metadata probe, the audio download and the transcription,   *)
(* the summarizer, the flat-file store and the dashboard listing.          *)
(*                                                                         *)
(* Python strings are sequences of one-character strings, so that strip,   *)
(* join, startswith, replace, readline and the sort of file names are      *)
(* computed as the code computes them.  Python's None is the value None.   *)
(***************************************************************************)
EXTENDS Integers, Sequences, FiniteSets, TLC

\* ------------------------------------------------------------------ bounds

\* Requests the service receives in one behaviour.
MaxRequests == 2
\* Seconds the wall clock can advance in one behaviour.
MaxClock == 1
\* Caption tracks the captions service lists for one identifier.
MaxTracks == 2

\* ------------------------------------------------------------ Python values

None == <<"<None>">>

\* `not x` for a string or None (main.py:144, main.py:150).
Falsy(x) == x = None \/ x = <<>>

IsSpace(c) == c \in {" ", "\n", "\t"}

RECURSIVE LStrip(_)
LStrip(s) == IF s # <<>> /\ IsSpace(Head(s)) THEN LStrip(Tail(s)) ELSE s

RECURSIVE RStrip(_)
RStrip(s) ==
    IF s # <<>> /\ IsSpace(s[Len(s)]) THEN RStrip(SubSeq(s, 1, Len(s) - 1)) ELSE s

\* str.strip()
Strip(s) == RStrip(LStrip(s))

\* str.startswith(p)
StartsWith(s, p) == Len(s) >= Len(p) /\ SubSeq(s, 1, Len(p)) = p

\* str.replace(old, ""): every non-overlapping occurrence, left to right.
RECURSIVE Remove(_, _)
Remove(s, old) ==
    IF s = <<>> THEN <<>>
    ELSE IF StartsWith(s, old) THEN Remove(SubSeq(s, Len(old) + 1, Len(s)), old)
    ELSE <<Head(s)>> \o Remove(Tail(s), old)

\* sep.join(parts)
RECURSIVE Join(_, _)
Join(sep, parts) ==
    IF parts = <<>> THEN <<>>
    ELSE IF Len(parts) = 1 THEN parts[1]
    ELSE parts[1] \o sep \o Join(sep, Tail(parts))

\* The lines of a text file as readline() and iteration return them: each
\* line keeps its "\n"; a last line without one is returned as it is.
RECURSIVE ReadLines(_, _)
ReadLines(s, cur) ==
    IF s = <<>> THEN (IF cur = <<>> THEN <<>> ELSE <<cur>>)
    ELSE IF Head(s) = "\n" THEN <<cur \o <<"\n">> >> \o ReadLines(Tail(s), <<>>)
    ELSE ReadLines(Tail(s), cur \o <<Head(s)>>)

\* Code points of the characters file names are made of.
CodePoint(c) ==
    CASE c = "." -> 46
      [] c = "0" -> 48 [] c = "1" -> 49 [] c = "2" -> 50 [] c = "3" -> 51
      [] c = "4" -> 52 [] c = "5" -> 53 [] c = "6" -> 54 [] c = "7" -> 55
      [] c = "8" -> 56 [] c = "9" -> 57
      [] c = "_" -> 95
      [] c = "a" -> 97 [] c = "b" -> 98
      [] c = "t" -> 116 [] c = "x" -> 120

\* s < t for Python strings: by code point, a proper prefix first.
RECURSIVE StrLess(_, _)
StrLess(s, t) ==
    IF t = <<>> THEN FALSE
    ELSE IF s = <<>> THEN TRUE
    ELSE IF Head(s) = Head(t) THEN StrLess(Tail(s), Tail(t))
    ELSE CodePoint(Head(s)) < CodePoint(Head(t))

\* sorted(names, reverse=True)
RECURSIVE SortedReverse(_)
SortedReverse(names) ==
    IF names = {} THEN <<>>
    ELSE LET top == CHOOSE n \in names : \A m \in names : ~StrLess(n, m)
         IN  <<top>> \o SortedReverse(names \ {top})

\* ------------------------------------------------------- program constants

\* The two provenance values (main.py:148, main.py:164).
Youtube == <<"y", "o", "u", "t", "u", "b", "e">>
Whisper == <<"w", "h", "i", "s", "p", "e", "r">>

\* The free-tier limit in seconds (main.py:154).
DurationLimit == 600

\* (The accented letter of the Spanish message is written plain.)
SpanishLimitMessage == "La version gratuita solo admite audios de menos de 10 minutos."
EnglishLimitMessage == "Free version only supports less than 10min audios."
MissingIdMessage == "Missing video_id"

\* What the framework answers when a handler lets an exception escape.
InternalServerError == "Internal Server Error"

NoExc == "none"

\* --------------------------------------------------------- the caption fetcher

\* A caption track as the captions service lists it: its flag, its language,
\* the segments fetch() returns, and whether fetch() raises.
Track(gen, lang, entries, ok) ==
    [is_generated |-> gen, language_code |-> lang, entries |-> entries, fetch_ok |-> ok]

Entry(t) == [text |-> t]

TrackPool ==
    { Track(FALSE, <<"e", "n">>, <<Entry(<<"h", "i">>), Entry(<<"y", "o">>)>>, TRUE),
      Track(FALSE, <<"e", "n">>, <<>>, TRUE),
      Track(TRUE, <<"e", "s">>, <<Entry(<<"o", "k">>)>>, TRUE),
      Track(TRUE, <<"e", "n">>, <<Entry(<<>>)>>, TRUE),
      Track(FALSE, <<"e", "s">>, <<Entry(<<"n", "o">>)>>, FALSE) }

RECURSIVE TrackLists(_)
TrackLists(n) ==
    IF n = 0 THEN {<<>>}
    ELSE LET shorter == TrackLists(n - 1)
         IN  shorter \cup {Append(l, t) : l \in {x \in shorter : Len(x) = n - 1}, t \in TrackPool}

\* What list_transcripts does for an identifier: it raises, or lists tracks.
Listing(tracks) == [raises |-> NoExc, tracks |-> tracks]
ListingRaises(exc) == [raises |-> exc, tracks |-> <<>>]

CaptionFailures ==
    {ListingRaises(e) : e \in {"TranscriptsDisabled", "NoTranscriptFound", "TransportError"}}

\* Every behaviour of the captions service over the pool.
CaptionOutcomes == {Listing(l) : l \in TrackLists(MaxTracks)} \cup CaptionFailures

\* The behaviours the whole service is run against: every failure, no track,
\* one track of each kind, and a generated track listed before a human one.
CaptionScenarios ==
    CaptionFailures
    \cup {Listing(<<>>)}
    \cup {Listing(<<t>>) : t \in TrackPool}
    \cup {Listing(<<Track(TRUE, <<"e", "s">>, <<Entry(<<"o", "k">>)>>, TRUE),
                    Track(FALSE, <<"e", "n">>, <<Entry(<<"h", "i">>), Entry(<<"y", "o">>)>>, TRUE)>>)}

\* for tr in transcripts: if not tr.is_generated: preferred = tr; break
\* (0 stands for preferred = None).
RECURSIVE FirstHuman(_, _)
FirstHuman(tracks, i) ==
    IF i > Len(tracks) THEN 0
    ELSE IF ~tracks[i].is_generated THEN i
    ELSE FirstHuman(tracks, i + 1)

\* A fetcher that takes the first track listed, whatever its flag.
Preferred_First(tracks) == 1

\* if preferred is None: preferred = next(iter(transcripts))
Preferred(tracks) == IF FirstHuman(tracks, 1) = 0 THEN 1 ELSE FirstHuman(tracks, 1)

\* The except clauses of get_youtube_transcript: (TranscriptsDisabled,
\* NoTranscriptFound), then Exception.
\* (A fetcher without the second clause.)
CaughtByFetcher_OnlyNamed(exc) == exc \in {"TranscriptsDisabled", "NoTranscriptFound"}

CaughtByFetcher(exc) ==
    exc \in {"TranscriptsDisabled", "NoTranscriptFound"} \/ exc # NoExc

\* get_youtube_transcript: (text, language_code), and the exception that
\* escapes it, if one does.
get_youtube_transcript(o) ==
    LET exc == IF o.raises # NoExc THEN o.raises
               ELSE IF o.tracks = <<>> THEN "StopIteration"
               ELSE IF ~o.tracks[Preferred(o.tracks)].fetch_ok THEN "TransportError"
               ELSE NoExc
    IN  IF exc = NoExc
        THEN LET preferred == o.tracks[Preferred(o.tracks)]
                 texts == [i \in DOMAIN preferred.entries |-> preferred.entries[i].text]
             IN  [text |-> Join(<<" ">>, texts),
                  language_code |-> preferred.language_code,
                  raised |-> NoExc]
        ELSE [text |-> None, language_code |-> None,
              raised |-> IF CaughtByFetcher(exc) THEN NoExc ELSE exc]

\* --------------------------------------------------------- the metadata probe

\* JSON null, or a key the record does not have.
NoDuration == -1

\* What the probe tool does: its exit status and the JSON records of its
\* standard output, one per line (duration in milliseconds: it may be
\* fractional).
ProbeRun(ok, records) == [exit_ok |-> ok, records |-> records]
Meta(ms, lang) == [duration |-> ms, language |-> lang]

ProbeOutcomes ==
    { ProbeRun(FALSE, <<>>),
      ProbeRun(TRUE, <<>>),
      ProbeRun(TRUE, <<Meta(120000, <<"e", "n">>)>>),
      ProbeRun(TRUE, <<Meta(600900, <<"e", "s">>), Meta(700000, <<"e", "n">>)>>),
      ProbeRun(TRUE, <<Meta(601000, None)>>),
      ProbeRun(TRUE, <<Meta(601000, <<"e">>)>>),
      ProbeRun(TRUE, <<Meta(700000, <<"e", "n">>), Meta(120000, <<"e", "s">>)>>),
      ProbeRun(TRUE, <<Meta(700000, <<"e", "s">>)>>),
      ProbeRun(TRUE, <<Meta(601000, <<"e", "s", "-", "M", "X">>)>>),
      ProbeRun(TRUE, <<Meta(NoDuration, None)>>) }

\* int(duration)
IntOf(ms) == ms \div 1000

\* get_video_info: (duration_in_seconds, language_code | None)
get_video_info(p) ==
    IF ~p.exit_ok THEN [duration_sec |-> 0, lang_code |-> None]
    ELSE LET data == IF p.records = <<>> THEN Meta(NoDuration, None) ELSE p.records[1]
         IN  [duration_sec |-> IF data.duration # NoDuration THEN IntOf(data.duration) ELSE 0,
              lang_code |-> data.language]

\* if duration_sec and duration_sec > 600
OverLimit(duration_sec) == duration_sec # 0 /\ duration_sec > DurationLimit

\* A selection by lang_code == "es".
LimitMessage_Equals(lang_code) ==
    IF lang_code = <<"e", "s">> THEN SpanishLimitMessage ELSE EnglishLimitMessage

\* The message of the rejection: (lang_code or "").startswith("es")
LimitMessage(lang_code) ==
    IF StartsWith(IF Falsy(lang_code) THEN <<>> ELSE lang_code, <<"e", "s">>)
    THEN SpanishLimitMessage
    ELSE EnglishLimitMessage

\* A handler that takes the fallback whatever the captions are.
NeedsFallback_Always(text) == TRUE

\* if not text
NeedsFallback(text) == Falsy(text)

\* ------------------------------------------------------------ the collaborators

\* The identifiers requests arrive with, before strip().
RawIds == { <<>>, <<" ">>, <<"a">>, <<" ", "a", "\n">>, <<"b">> }

\* The speech-to-text API's text for the audio of a video.
Speech(vid) == <<"s", "a", "i", "d", " ">> \o vid

\* response.choices[0].message.content, as the text-generation API returns it.
SummaryContents == { <<" ", "o", "k", "\n">>, <<"M", ":", "\n", "x">> }

\* summarize_text: the content, stripped.
summarize_text(content) == Strip(content)

\* ------------------------------------------------------------------ the store

TranscriptsDir == <<"t", "r", "a", "n", "s", "c", "r", "i", "p", "t", "s", "/">>

Digits == <<"0", "1", "2", "3", "4", "5", "6", "7", "8", "9">>

\* datetime.now().strftime("%Y%m%d_%H%M%S"): fixed width, zero padded, the
\* wall clock cut to whole seconds.
Timestamp(now) == <<Digits[((now \div 10) % 10) + 1], Digits[(now % 10) + 1]>>

\* The name of the file save_transcript writes, inside transcripts/.
FileName(video_id, timestamp) == video_id \o <<"_">> \o timestamp \o <<".", "t", "x", "t">>

\* What save_transcript writes into it.
FileContent(text, summary, source) ==
    <<"[", "S", "o", "u", "r", "c", "e", ":", " ">> \o source \o <<"]", "\n", "\n">>
    \o <<"S", "u", "m", "m", "a", "r", "y", ":", "\n">> \o summary
    \o <<"\n", "\n", "-", "-", "-", "\n", "\n">> \o text

\* The directory after open(path, "w") and the two writes: a file of that
\* name is created, or truncated and written again.
WriteFile(dir, name, content) ==
    [n \in DOMAIN dir \cup {name} |-> IF n = name THEN content ELSE dir[n]]

\* The dashboard's scan for the summary: the line that follows the first
\* line starting with "Summary:", stripped.
RECURSIVE ScanSummary(_, _)
ScanSummary(lines, i) ==
    IF i > Len(lines) THEN <<>>
    ELSE IF StartsWith(lines[i], <<"S", "u", "m", "m", "a", "r", "y", ":">>)
         THEN (IF i + 1 > Len(lines) THEN <<>> ELSE Strip(lines[i + 1]))
    ELSE ScanSummary(lines, i + 1)

\* One entry of the dashboard, parsed from a stored file.
ParseEntry(name, content) ==
    LET lines == ReadLines(content, <<>>)
        first_line == IF lines = <<>> THEN <<>> ELSE Strip(lines[1])
    IN  [filename |-> name,
         source |-> Strip(Remove(Remove(first_line,
                        <<"[", "S", "o", "u", "r", "c", "e", ":">>), <<"]">>)),
         summary |-> ScanSummary(lines, 2)]

\* The order the dashboard lists the files in: sorted(os.listdir(...), reverse=True).
ListingOrder(dir) == SortedReverse(DOMAIN dir)

\* ------------------------------------------------------------------ the state

\* The server processes that handle requests.  A handler is a coroutine that
\* never awaits, so one process handles one request at a time.
Processes == {1, 2}

VARIABLES
    req,          \* per process: the request it handles (the handler's locals)
    audio,        \* the scratch file audio.mp3 in the working directory
    transcripts,  \* the directory transcripts/: file name -> content
    clock,        \* the wall clock, in seconds
    nreq,         \* requests received so far
    saves         \* history: the records save_transcript wrote, in the order of the writes

vars == <<req, audio, transcripts, clock, nreq, saves>>

NoFile == [vid |-> None, by |-> 0]

NoResponse == [status |-> 0, detail |-> "", source |-> None, summary |-> None, file |-> None]

NotAsked == [raises |-> "not asked", tracks |-> <<>>]

NoError == [at |-> "none", msg |-> NoExc]

\* A process with no request.  entries is its last dashboard response.
\* calls, cap, exc and heard are history: the collaborators the request
\* invoked, what the captions service did, the exception that ended the
\* request, the audio file it transcribed.
Idle ==
    [pc |-> "idle", serial |-> 0, video_id |-> None, text |-> None,
     detected_language |-> None, source |-> None, duration_sec |-> 0,
     lang_code |-> None, summary |-> None, response |-> NoResponse,
     entries |-> << >>, calls |-> {}, cap |-> NotAsked, exc |-> NoError, heard |-> NoFile]

Init ==
    /\ req = [w \in Processes |-> Idle]
    /\ audio = NoFile
    /\ transcripts = << >>
    /\ clock = 0
    /\ nreq = 0
    /\ saves = << >>

\* raise HTTPException(status_code=status, detail=detail)
HttpError(r, status, detail, at) ==
    [r EXCEPT !.pc = "done",
              !.response = [NoResponse EXCEPT !.status = status, !.detail = detail],
              !.exc = [at |-> at, msg |-> detail]]

\* except Exception as e: raise HTTPException(status_code=500, detail=str(e))
Caught(r, msg, at) ==
    [r EXCEPT !.pc = "done",
              !.response = [NoResponse EXCEPT !.status = 500, !.detail = msg],
              !.exc = [at |-> at, msg |-> msg]]

\* An exception raised outside the try block leaves the handler; the
\* framework answers 500 with its own body.
Escaped(r, msg, at) ==
    [r EXCEPT !.pc = "done",
              !.response = [NoResponse EXCEPT !.status = 500, !.detail = InternalServerError],
              !.exc = [at |-> at, msg |-> msg]]

Free(w) == req[w].pc \in {"idle", "done"}

\* ---------------------------------------------------------------- the handler

\* POST /summarize arrives: video_id = req.video_id.strip(); 400 if empty.
Receive(w) ==
    /\ Free(w)
    /\ nreq < MaxRequests
    /\ \E raw \in RawIds :
        LET r == [Idle EXCEPT !.serial = nreq + 1, !.video_id = Strip(raw)]
        IN  req' = [req EXCEPT ![w] =
                IF Falsy(r.video_id)
                THEN HttpError(r, 400, MissingIdMessage, "validation")
                ELSE [r EXCEPT !.pc = "captions"]]
    /\ nreq' = nreq + 1
    /\ UNCHANGED <<audio, transcripts, clock, saves>>

\* text, detected_language = get_youtube_transcript(video_id); source = "youtube";
\* if not text: the fallback.
FetchCaptions(w, outcomes) ==
    /\ req[w].pc = "captions"
    /\ \E o \in outcomes :
        LET got == get_youtube_transcript(o)
            r == [req[w] EXCEPT !.calls = @ \cup {"captions"}, !.cap = o]
        IN  req' = [req EXCEPT ![w] =
                IF got.raised # NoExc
                THEN Escaped(r, got.raised, "captions")
                ELSE [r EXCEPT !.text = got.text,
                               !.detected_language = got.language_code,
                               !.source = Youtube,
                               !.pc = IF NeedsFallback(got.text) THEN "probe" ELSE "summarize"]]
    /\ UNCHANGED <<audio, transcripts, clock, nreq, saves>>

\* duration_sec, lang_code = get_video_info(video_id); the limit.
Probe(w) ==
    /\ req[w].pc = "probe"
    /\ \E p \in ProbeOutcomes :
        LET info == get_video_info(p)
            r == [req[w] EXCEPT !.calls = @ \cup {"probe"},
                                !.duration_sec = info.duration_sec,
                                !.lang_code = info.lang_code]
        IN  req' = [req EXCEPT ![w] =
                IF OverLimit(info.duration_sec)
                THEN HttpError(r, 400, LimitMessage(info.lang_code), "limit")
                ELSE [r EXCEPT !.pc = "download"]]
    /\ UNCHANGED <<audio, transcripts, clock, nreq, saves>>

\* audio_path = download_audio(video_id): the tool exits nonzero, or leaves
\* audio.mp3.  Over a file that is already there the tool writes the new
\* audio or keeps the old one.
Download(w) ==
    /\ req[w].pc = "download"
    /\ LET r == [req[w] EXCEPT !.calls = @ \cup {"download"}]
           mine == [vid |-> r.video_id, by |-> r.serial]
       IN  \/ /\ req' = [req EXCEPT ![w] = Caught(r, "CalledProcessError", "download")]
              /\ audio' = audio
           \/ /\ req' = [req EXCEPT ![w] = [r EXCEPT !.pc = "transcribe"]]
              /\ audio' \in (IF audio = NoFile THEN {mine} ELSE {mine, audio})
    /\ UNCHANGED <<transcripts, clock, nreq, saves>>

\* text = transcribe_with_whisper(audio_path): open the file, call the API.
Transcribe(w) ==
    /\ req[w].pc = "transcribe"
    /\ LET r == [req[w] EXCEPT !.calls = @ \cup {"transcribe"}]
       IN  IF audio = NoFile
           THEN req' = [req EXCEPT ![w] = Caught(r, "FileNotFoundError", "transcribe")]
           ELSE \/ req' = [req EXCEPT ![w] =
                        Caught([r EXCEPT !.heard = audio], "APIError", "transcribe")]
                \/ req' = [req EXCEPT ![w] =
                        [r EXCEPT !.heard = audio, !.text = Speech(audio.vid), !.pc = "remove"]]
    /\ UNCHANGED <<audio, transcripts, clock, nreq, saves>>

\* A handler that leaves the scratch file behind.
Removed_Kept(file) == file

\* The scratch file after os.remove(audio_path).
Removed(file) == NoFile

\* os.remove(audio_path); source = "whisper"; detected_language = lang_code
RemoveAudio(w) ==
    /\ req[w].pc = "remove"
    /\ IF audio = NoFile
       THEN /\ req' = [req EXCEPT ![w] = Caught(req[w], "FileNotFoundError", "remove")]
            /\ audio' = audio
       ELSE /\ req' = [req EXCEPT ![w] =
                    [req[w] EXCEPT !.source = Whisper,
                                   !.detected_language = req[w].lang_code,
                                   !.pc = "summarize"]]
            /\ audio' = Removed(audio)
    /\ UNCHANGED <<transcripts, clock, nreq, saves>>

\* summary = summarize_text(text), outside the try block.
Summarize(w) ==
    /\ req[w].pc = "summarize"
    /\ LET r == [req[w] EXCEPT !.calls = @ \cup {"summarize"}]
       IN  \/ req' = [req EXCEPT ![w] = Escaped(r, "APIError", "summarize")]
           \/ \E content \in SummaryContents :
                req' = [req EXCEPT ![w] =
                    [r EXCEPT !.summary = summarize_text(content), !.pc = "save"]]
    /\ UNCHANGED <<audio, transcripts, clock, nreq, saves>>

\* file_path = save_transcript(video_id, text, summary, source); return {...}
Save(w) ==
    /\ req[w].pc = "save"
    /\ LET r == req[w]
           name == FileName(r.video_id, Timestamp(clock))
           content == FileContent(r.text, r.summary, r.source)
       IN  /\ transcripts' = WriteFile(transcripts, name, content)
           /\ saves' = Append(saves, [name |-> name, source |-> r.source, summary |-> r.summary])
           /\ req' = [req EXCEPT ![w] =
                [r EXCEPT !.pc = "done",
                          !.calls = @ \cup {"save"},
                          !.response = [status |-> 200, detail |-> "",
                                        source |-> r.source, summary |-> r.summary,
                                        file |-> TranscriptsDir \o name]]]
    /\ UNCHANGED <<audio, clock, nreq>>

\* GET /: the dashboard lists transcripts/.
Dashboard(w) ==
    /\ Free(w)
    /\ LET files == ListingOrder(transcripts)
           listed == [i \in DOMAIN files |-> ParseEntry(files[i], transcripts[files[i]])]
       IN  req' = [req EXCEPT ![w] = [Idle EXCEPT !.entries = listed]]
    /\ UNCHANGED <<audio, transcripts, clock, nreq, saves>>

\* A second of wall-clock time passes.
Tick ==
    /\ clock < MaxClock
    /\ clock' = clock + 1
    /\ UNCHANGED <<req, audio, transcripts, nreq, saves>>

Step(w, outcomes) ==
    \/ Receive(w)
    \/ FetchCaptions(w, outcomes)
    \/ Probe(w)
    \/ Download(w)
    \/ Transcribe(w)
    \/ RemoveAudio(w)
    \/ Summarize(w)
    \/ Save(w)
    \/ Dashboard(w)

\* One server process (the default deployment): requests are handled one
\* after another.
Next == Step(1, CaptionScenarios) \/ Tick

Spec == Init /\ [][Next]_vars

\* Two server processes share the working directory; identifiers with no
\* captions, with captions disabled, and with one human track.
WorkerScenarios ==
    { ListingRaises("TranscriptsDisabled"),
      Listing(<<>>),
      Listing(<<Track(FALSE, <<"e", "n">>, <<Entry(<<"h", "i">>), Entry(<<"y", "o">>)>>, TRUE)>>) }

NextWorkers == (\E w \in Processes : Step(w, WorkerScenarios)) \/ Tick

SpecWorkers == Init /\ [][NextWorkers]_vars

\* The caption fetcher against every behaviour of the captions service, up
\* to the summary of the captions it returns.
NextCaptions == Receive(1) \/ FetchCaptions(1, CaptionOutcomes) \/ Summarize(1)

SpecCaptions == Init /\ [][NextCaptions]_vars

\* ------------------------------------------------------------------ the claims

InFlight(w) == req[w].pc \notin {"idle", "done"}

Asked(w) == req[w].cap # NotAsked

Succeeded(w) == req[w].pc = "done" /\ req[w].response.status = 200

\* The captions service lists a human-authored track and the fetch of the
\* first one succeeds.
HumanTrackAvailable(o) ==
    /\ o.raises = NoExc
    /\ \E i \in DOMAIN o.tracks :
        /\ ~o.tracks[i].is_generated
        /\ o.tracks[i].fetch_ok
        /\ \A j \in 1..(i - 1) : o.tracks[j].is_generated

\* Its segments hold some text: more than one segment, or one that is not empty.
HumanTrackHasText(o) ==
    /\ o.raises = NoExc
    /\ \E i \in DOMAIN o.tracks :
        /\ ~o.tracks[i].is_generated
        /\ \A j \in 1..(i - 1) : o.tracks[j].is_generated
        /\ \/ Len(o.tracks[i].entries) > 1
           \/ \E k \in DOMAIN o.tracks[i].entries : o.tracks[i].entries[k].text # <<>>

CaptionedRun(w) ==
    /\ req[w].calls \cap {"probe", "download", "transcribe"} = {}
    /\ req[w].source = Youtube
    /\ Succeeded(w) => req[w].response.source = Youtube

\* C1 as stated: a request whose identifier has an available human-authored
\* caption track has source "youtube" and never invokes the metadata probe,
\* the audio download or the transcription.
C1_AsStated == \A w \in Processes : HumanTrackAvailable(req[w].cap) => CaptionedRun(w)

\* C1, amended: a request whose identifier has an available human-authored
\* caption track whose text is not empty has source "youtube", in its
\* response too when it succeeds, and never invokes the metadata probe, the
\* audio download or the transcription.
C1_CaptionedWithText ==
    \A w \in Processes :
        HumanTrackAvailable(req[w].cap) /\ HumanTrackHasText(req[w].cap) => CaptionedRun(w)

C1_Witness ==
    \E w \in Processes :
        /\ HumanTrackAvailable(req[w].cap) /\ HumanTrackHasText(req[w].cap)
        /\ Succeeded(w)
        /\ req[w].response.source = Youtube

NoTracks(o) ==
    \/ o.raises \in {"TranscriptsDisabled", "NoTranscriptFound"}
    \/ o.raises = NoExc /\ o.tracks = <<>>

BeginsWithEs(lang) == lang # None /\ Len(lang) >= 2 /\ lang[1] = "e" /\ lang[2] = "s"

\* C2: a request whose identifier has no caption tracks takes the fallback
\* path, and once the probed duration is above 600 seconds it has ended with
\* status 400, the Spanish message when the probed language begins with "es"
\* and the English one otherwise, with no download, no transcription and no
\* stored record.
C2_FallbackLimit ==
    \A w \in Processes :
        NoTracks(req[w].cap) =>
            /\ req[w].pc = "probe" \/ "probe" \in req[w].calls
            /\ "probe" \in req[w].calls /\ req[w].duration_sec > 600 =>
                /\ req[w].pc = "done"
                /\ req[w].response.status = 400
                /\ req[w].response.detail =
                     IF BeginsWithEs(req[w].lang_code)
                     THEN SpanishLimitMessage ELSE EnglishLimitMessage
                /\ req[w].calls \cap {"download", "transcribe", "summarize", "save"} = {}
                /\ req[w].response.file = None

C2_Witness ==
    \E w \in Processes :
        /\ NoTracks(req[w].cap)
        /\ req[w].duration_sec > 600
        /\ Len(req[w].lang_code) > 2
        /\ req[w].response.status = 400
        /\ req[w].response.detail = SpanishLimitMessage

\* C3 as stated: a request that ends without success answers 400 for an empty
\* identifier (having called no collaborator) or for the duration limit, and
\* 500 with the underlying message when the download, the transcription or
\* the summarization fails.
C3_AsStated ==
    \A w \in Processes :
        req[w].pc = "done" /\ req[w].response.status # 200 =>
            \/ /\ req[w].exc.at = "validation"
               /\ req[w].response.status = 400
               /\ req[w].calls = {}
            \/ /\ req[w].exc.at = "limit"
               /\ req[w].response.status = 400
            \/ /\ req[w].exc.at \in {"download", "transcribe", "remove", "summarize"}
               /\ req[w].response.status = 500
               /\ req[w].response.detail = req[w].exc.msg

\* C4 as stated: every successful request leaves a stored record of its own:
\* there are as many files as records written.
C4_AsStated == Cardinality(DOMAIN transcripts) = Len(saves)

\* C5 as stated: a request never transcribes an audio file that a request in
\* flight on another process downloaded, and never finds the scratch file gone.
C5_AsStated ==
    \A w \in Processes :
        /\ req[w].exc.msg # "FileNotFoundError"
        /\ \A v \in Processes \ {w} :
            InFlight(v) /\ req[w].heard # NoFile => req[w].heard.by # req[v].serial

FallbackRun(w) == {"download", "transcribe"} \subseteq req[w].calls

\* C6: once a request on the fallback path is past the transcription and the
\* removal (it summarizes, saves, or has answered 200), the scratch audio
\* file does not exist.
C6_ScratchDeleted ==
    \A w \in Processes :
        FallbackRun(w) /\ (req[w].pc \in {"summarize", "save"} \/ Succeeded(w)) =>
            audio = NoFile

C6_Witness ==
    \E w \in Processes :
        /\ FallbackRun(w)
        /\ Succeeded(w)
        /\ req[w].response.source = Whisper
        /\ audio = NoFile

\* The last record written under a file name.
LastSave(name) ==
    LET i == CHOOSE k \in DOMAIN saves :
                 /\ saves[k].name = name
                 /\ \A m \in DOMAIN saves : saves[m].name = name => m <= k
    IN  [at |-> i, record |-> saves[i]]

\* C7 as stated: every entry of the listing has the source and the summary
\* its record was written with.
C7_AsStated ==
    \A w \in Processes : \A i \in DOMAIN req[w].entries :
        LET e == req[w].entries[i]
            written == LastSave(e.filename).record
        IN  e.source = written.source /\ e.summary = written.summary

\* The track the policy names: the first human-authored one, or the first.
PolicyTrack(tracks) ==
    IF \E i \in DOMAIN tracks : ~tracks[i].is_generated
    THEN CHOOSE i \in DOMAIN tracks :
            /\ ~tracks[i].is_generated
            /\ \A j \in 1..(i - 1) : tracks[j].is_generated
    ELSE 1

\* Where segment k begins in the joined text, less one.
RECURSIVE Offset(_, _)
Offset(entries, k) ==
    IF k = 1 THEN 0 ELSE Offset(entries, k - 1) + Len(entries[k - 1].text) + 1

\* text is the segments in their order, one space between two of them.
IsJoined(text, entries) ==
    /\ text # None
    /\ Len(text) = IF entries = <<>> THEN 0
                   ELSE Offset(entries, Len(entries)) + Len(entries[Len(entries)].text)
    /\ \A k \in DOMAIN entries :
        /\ SubSeq(text, Offset(entries, k) + 1, Offset(entries, k) + Len(entries[k].text))
             = entries[k].text
        /\ k > 1 => text[Offset(entries, k)] = " "

\* C8: when tracks are listed and the fetch of the track the policy names
\* succeeds, the fetcher returns the text of that track, its segments joined
\* in order with single spaces, and its language.
C8_TrackSelection ==
    \A w \in Processes :
        LET o == req[w].cap
        IN  /\ Asked(w)
            /\ o.raises = NoExc
            /\ o.tracks # <<>>
            /\ o.tracks[PolicyTrack(o.tracks)].fetch_ok
            => /\ IsJoined(req[w].text, o.tracks[PolicyTrack(o.tracks)].entries)
               /\ req[w].detected_language = o.tracks[PolicyTrack(o.tracks)].language_code

C8_Witness ==
    \E w \in Processes :
        LET o == req[w].cap
        IN  /\ Asked(w)
            /\ Len(o.tracks) > 1
            /\ o.tracks[1].is_generated
            /\ o.tracks[1].fetch_ok
            /\ Len(o.tracks[1].entries) > 0
            /\ PolicyTrack(o.tracks) > 1
            /\ o.tracks[PolicyTrack(o.tracks)].fetch_ok
            /\ Len(o.tracks[PolicyTrack(o.tracks)].entries) > 1
            /\ req[w].pc = "save"

\* The caption lookup fails: listing raises, nothing is listed, or the fetch
\* of the track raises.
LookupFails(o) ==
    \/ o.raises \in {"TranscriptsDisabled", "NoTranscriptFound", "TransportError"}
    \/ o.raises = NoExc /\ o.tracks = <<>>
    \/ o.raises = NoExc /\ o.tracks # <<>> /\ ~o.tracks[PolicyTrack(o.tracks)].fetch_ok

CaptionErrors == {"TranscriptsDisabled", "NoTranscriptFound", "TransportError", "StopIteration"}

\* C9: after a failed caption lookup the fetcher has returned (None, None),
\* the request is on the fallback path, and neither the exception that ends
\* it nor its response comes from the captions service.
C9_CaptionErrorsAbsorbed ==
    \A w \in Processes :
        LookupFails(req[w].cap) =>
            /\ req[w].pc = "probe" \/ "probe" \in req[w].calls
            /\ req[w].pc = "probe" =>
                 req[w].text = None /\ req[w].detected_language = None
            /\ req[w].exc.at # "captions"
            /\ req[w].exc.msg \notin CaptionErrors
            /\ req[w].response.detail \notin CaptionErrors
            /\ req[w].response.detail = InternalServerError => req[w].exc.at = "summarize"

C9_Witness ==
    \E w \in Processes :
        /\ req[w].cap.raises = "TransportError"
        /\ LookupFails(req[w].cap)
        /\ Succeeded(w)
        /\ req[w].response.source = Whisper

\* C10 as stated: in the listing, an entry whose record was written later
\* comes before an entry whose record was written earlier.
C10_AsStated ==
    \A w \in Processes : \A i, j \in DOMAIN req[w].entries :
        i < j => LastSave(req[w].entries[i].filename).at
                   > LastSave(req[w].entries[j].filename).at

====
